---- MODULE Spec2Model ----
(***************************************************************************)
(* Model of falkon/la_helpers/cuda/utils.cu: the host functions            *)
(* cuda_transpose, cuda_copy_triang, cuda_mul_triang, cuda_vec_mul_triang  *)
(* and the kernels they launch.                                            *)
(*                                                                         *)
(* A host function is one action (validation, dispatch, launch, return).   *)
(* A launched kernel is a set of threads, one per (block, thread) index,   *)
(* each with its own position; one action executes one loop iteration of   *)
(* one thread, so TLC explores every interleaving of the threads.          *)
(*                                                                         *)
(* Thread-block geometry is scaled: the source sets TILE_DIM 32,           *)
(* BLOCK_ROWS 8, NB 64 and block_size 32; the model keeps its shape        *)
(* (BLOCK_ROWS divides TILE_DIM and is smaller, so the repeat loops run    *)
(* more than once; matrices span several blocks and partial edge blocks)   *)
(* with values small enough for the interleavings to be enumerated.        *)
(***************************************************************************)
EXTENDS Integers, Sequences, FiniteSets, TLC

VARIABLES
    T,       \* tensor handles: name -> [size, stride, dev, dtype, buf]
    mem,     \* device buffers: buf -> [0 .. len-1 -> value]
    writes,  \* buf -> [0 .. len-1 -> number of stores to that element]
    host,    \* the caller: [op, pc, left, upper, preserve_diag, multiplier]
    err,     \* the error raised by the last host call, or NoError
    kernel,  \* the kernel enqueued by the last host call, or NoKernel
    tpc,     \* thread -> [ph, k]: position of each thread of the kernel
    shrd,    \* block -> staging tile (__shared__ memory of that block)
    fault,   \* TRUE once a thread has made an access with undefined behaviour
    tri      \* the index mapper's run: [nx, upper, lower], the tile positions
             \* computed so far for the linear indices 0, 1, 2, ...

vars == <<T, mem, writes, host, err, kernel, tpc, shrd, fault, tri>>

---------------------------------------------------------------------------
(* Constants of the source (scaled, see the header).                       *)

TILE_DIM == 2
BLOCK_ROWS == 1
NB == 2
block_size == 2

\* Width of int.  The source's int has 32 bits, which TLC's own integers
\* cannot exceed; the model's int has 16, far above every offset of the
\* matrices within the bounds.
INT_BITS == 16

(* Bounds of the model.                                                    *)
MaxDim == 3     \* rows and columns of a transposed matrix
MaxElems == 9   \* elements of a transposed matrix
MaxN == 4       \* rows and columns of a matrix given to a triangular kernel
MaxVecN == 12   \* rows of a matrix whose triangular tile grid is enumerated
MaxSize == 182  \* rows of the largest matrix whose copy offsets are followed

---------------------------------------------------------------------------
(* Tensors.                                                                *)

NoError == "none"
NoKernel == [name |-> "none"]
NoTri == [nx |-> 0, upper |-> << >>, lower |-> << >>]
Uninit == -1          \* content of a __shared__ cell never stored to
Garbage == {-2, -3}   \* what a load outside a buffer may return

Orders == {"F", "C"}                      \* column-major, row-major
Devices == {"cpu", "cuda:0", "cuda:1"}
DTypes == {"float", "double", "int"}

\* Strides of a contiguous 2-D tensor of the given storage order.
StridesOf(s0, s1, ord) == IF ord = "F" THEN <<1, s0>> ELSE <<s1, 1>>

Handle(s0, s1, ord, dev, dtype, buf) ==
    [size |-> <<s0, s1>>, stride |-> StridesOf(s0, s1, ord),
     dev |-> dev, dtype |-> dtype, buf |-> buf]

is_cuda(h) == h.dev # "cpu"

\* Offset of logical element (i, j) of handle h inside its buffer.
Off(h, i, j) == i * h.stride[1] + j * h.stride[2]

\* The value stored at logical element (i, j).
Elem(h, i, j) == mem[h.buf][Off(h, i, j)]

\* Initial content of an input buffer: element k holds the tag k + 1, so
\* every element is told apart from every other and from 0.
Tag(k) == k + 1

\* Conversion to int: two's complement wrap-around at INT_BITS bits.
ToInt(x) == ((x + 2 ^ (INT_BITS - 1)) % (2 ^ INT_BITS)) - 2 ^ (INT_BITS - 1)

\* a < b where a is an int and b a size_t: a is converted to size_t, which
\* makes a negative a larger than every b the model reaches.
LtSizeT(a, b) == a >= 0 /\ a < b

\* torch::transpose(h, 0, 1): the same buffer with the two axes swapped.
Transpose01(h) ==
    [h EXCEPT !.size = <<h.size[2], h.size[1]>>,
              !.stride = <<h.stride[2], h.stride[1]>>]

\* Mutant: the division is not rounded up.
ceildiv_floor(dividend, divisor) == dividend \div divisor

ceildiv(dividend, divisor) ==
    LET res == dividend \div divisor
    IN IF dividend % divisor # 0 THEN res + 1 ELSE res

\* Mutant: the dispatch instantiates the lambda for every scalar type.
IsFloating_any(dtype) == TRUE

\* AT_DISPATCH_FLOATING_TYPES instantiates the lambda for float and double
\* and raises for every other scalar type.
IsFloating(dtype) == dtype \in {"float", "double"}

---------------------------------------------------------------------------
(* Global-memory accesses of a kernel thread.                              *)

\* How a thread of the running kernel reaches buf[idx]: "ok" inside a
\* buffer of the device the kernel runs on; "foreign" inside a buffer of
\* another device (defined only if the devices have peer access); "oob"
\* outside the buffer.
Reach(buf, idx) ==
    IF idx \notin DOMAIN mem[buf] THEN "oob"
    ELSE IF T[buf].dev # kernel.dev THEN "foreign"
    ELSE "ok"

\* The values a load of buf[idx] may yield.
Load(buf, idx) ==
    CASE Reach(buf, idx) = "ok" -> {mem[buf][idx]}
      [] Reach(buf, idx) = "foreign" -> {mem[buf][idx]} \cup Garbage
      [] OTHER -> Garbage

\* Whether a store to buf[idx] may land in the buffer.
Landing(buf, idx) ==
    CASE Reach(buf, idx) = "ok" -> {TRUE}
      [] Reach(buf, idx) = "foreign" -> {TRUE, FALSE}
      [] OTHER -> {FALSE}

\* buf[idx] = v.
Store(buf, idx, v) ==
    \E land \in Landing(buf, idx) :
        /\ mem' = IF land THEN [mem EXCEPT ![buf][idx] = v] ELSE mem
        /\ writes' = IF land THEN [writes EXCEPT ![buf][idx] = @ + 1] ELSE writes

\* The fault flag after an access to buf[idx].
Access(buf, idx) == fault' = (fault \/ Reach(buf, idx) # "ok")

---------------------------------------------------------------------------
(* Threads of a launch.                                                    *)

Blocks(k) == (0 .. k.grid[1] - 1) \X (0 .. k.grid[2] - 1)

Threads(k) ==
    {<<bx, by, lx, ly>> : bx \in 0 .. k.grid[1] - 1, by \in 0 .. k.grid[2] - 1,
                          lx \in 0 .. k.block[1] - 1, ly \in 0 .. k.block[2] - 1}

BlockOf(t) == <<t[1], t[2]>>

KernelDone == \A t \in DOMAIN tpc : tpc[t].ph = "done"

\* Mutant: no barrier between the load phase and the write-back phase.
BarrierOpen_none(t) == TRUE

\* __syncthreads(): a thread leaves the barrier once every thread of its
\* block has arrived, i.e. none is still in the phase before it.
BarrierOpen(t) ==
    \A u \in DOMAIN tpc : BlockOf(u) = BlockOf(t) => tpc[u].ph # "load"

EmptyTile == [c \in (0 .. TILE_DIM - 1) \X (0 .. TILE_DIM) |-> Uninit]

---------------------------------------------------------------------------
(* matrix_transpose_f and matrix_transpose_c.                              *)

\* Position after one iteration of a repeat loop with the given step.
NextRepeat(pc, step, after) ==
    IF pc.k + step < TILE_DIM THEN [pc EXCEPT !.k = @ + step]
    ELSE [ph |-> after, k |-> 0]

\* One iteration of the load loop of matrix_transpose_f.
matrix_transpose_f_load(t) ==
    /\ kernel.name = "matrix_transpose_f"
    /\ tpc[t].ph = "load"
    /\ LET lx == t[3]
           ly == t[4]
           repeat == tpc[t].k
           gx == lx + TILE_DIM * t[1]
           gy == ly + TILE_DIM * t[2]
           gy_ == gy + repeat
           idx == gy_ * kernel.dim0 + gx
       IN /\ IF gx < kernel.dim0 /\ gy_ < kernel.dim1
             THEN /\ \E v \in Load(kernel.in, idx) :
                        shrd' = [shrd EXCEPT ![BlockOf(t)][<<ly + repeat, lx>>] = v]
                  /\ Access(kernel.in, idx)
             ELSE UNCHANGED <<shrd, fault>>
          /\ tpc' = [tpc EXCEPT ![t] = NextRepeat(@, kernel.block[2], "store")]
    /\ UNCHANGED <<tri, T, mem, writes, host, err, kernel>>

\* One iteration of the write-back loop of matrix_transpose_f, after the
\* barrier.
matrix_transpose_f_store(t) ==
    /\ kernel.name = "matrix_transpose_f"
    /\ tpc[t].ph = "store"
    /\ BarrierOpen(t)
    /\ LET lx == t[3]
           ly == t[4]
           repeat == tpc[t].k
           gx == lx + TILE_DIM * t[2]
           gy == ly + TILE_DIM * t[1]
           gy_ == gy + repeat
           idx == gy_ * kernel.dim1 + gx
       IN /\ IF gx < kernel.dim1 /\ gy_ < kernel.dim0
             THEN /\ Store(kernel.out, idx, shrd[BlockOf(t)][<<lx, ly + repeat>>])
                  /\ Access(kernel.out, idx)
             ELSE UNCHANGED <<mem, writes, fault>>
          /\ tpc' = [tpc EXCEPT ![t] = NextRepeat(@, kernel.block[2], "done")]
    /\ UNCHANGED <<tri, T, host, err, kernel, shrd>>

\* One iteration of the load loop of matrix_transpose_c.
matrix_transpose_c_load(t) ==
    /\ kernel.name = "matrix_transpose_c"
    /\ tpc[t].ph = "load"
    /\ LET lx == t[3]
           ly == t[4]
           repeat == tpc[t].k
           gx == lx + TILE_DIM * t[1]
           gy == ly + TILE_DIM * t[2]
           gx_ == gx + repeat
           idx == gx_ * kernel.dim1 + gy
       IN /\ IF gx_ < kernel.dim0 /\ gy < kernel.dim1
             THEN /\ \E v \in Load(kernel.in, idx) :
                        shrd' = [shrd EXCEPT ![BlockOf(t)][<<lx + repeat, ly>>] = v]
                  /\ Access(kernel.in, idx)
             ELSE UNCHANGED <<shrd, fault>>
          /\ tpc' = [tpc EXCEPT ![t] = NextRepeat(@, kernel.block[1], "store")]
    /\ UNCHANGED <<tri, T, mem, writes, host, err, kernel>>

\* One iteration of the write-back loop of matrix_transpose_c, after the
\* barrier.
matrix_transpose_c_store(t) ==
    /\ kernel.name = "matrix_transpose_c"
    /\ tpc[t].ph = "store"
    /\ BarrierOpen(t)
    /\ LET lx == t[3]
           ly == t[4]
           repeat == tpc[t].k
           gx == lx + TILE_DIM * t[2]
           gy == ly + TILE_DIM * t[1]
           gx_ == gx + repeat
           idx == gx_ * kernel.dim0 + gy
       IN /\ IF gx_ < kernel.dim1 /\ gy < kernel.dim0
             THEN /\ Store(kernel.out, idx, shrd[BlockOf(t)][<<ly, lx + repeat>>])
                  /\ Access(kernel.out, idx)
             ELSE UNCHANGED <<mem, writes, fault>>
          /\ tpc' = [tpc EXCEPT ![t] = NextRepeat(@, kernel.block[1], "done")]
    /\ UNCHANGED <<tri, T, host, err, kernel, shrd>>

---------------------------------------------------------------------------
(* cuda_transpose.                                                         *)

\* Mutant: the shape check rejects only outputs wrong in both dimensions.
TransposeError_and(input, output) ==
    IF ~is_cuda(input) THEN "Input must be a CUDA tensor."
    ELSE IF ~is_cuda(output) THEN "Output must be a CUDA tensor."
    ELSE IF input.size[1] # output.size[2] /\ input.size[2] # output.size[1]
         THEN "Input and output matrices must be of the same size."
    ELSE IF ~IsFloating(input.dtype) THEN "not implemented for dtype"
    ELSE NoError

\* The error cuda_transpose raises for its arguments, NoError if none.
TransposeError(input, output) ==
    IF ~is_cuda(input) THEN "Input must be a CUDA tensor."
    ELSE IF ~is_cuda(output) THEN "Output must be a CUDA tensor."
    ELSE IF input.size[1] # output.size[2] \/ input.size[2] # output.size[1]
         THEN "Input and output matrices must be of the same size."
    ELSE IF ~IsFloating(input.dtype) THEN "not implemented for dtype"
    ELSE NoError

\* Mutant: the column-major kernel is launched whatever the strides.
TransposeLaunch_f(input, output) ==
    LET nx == input.size[1]
        ny == input.size[2]
    IN [name |-> "matrix_transpose_f",
        grid |-> <<ceildiv(nx, TILE_DIM), ceildiv(ny, TILE_DIM)>>,
        block |-> <<TILE_DIM, BLOCK_ROWS>>,
        dev |-> input.dev,
        out |-> output.buf, in |-> input.buf, dim0 |-> nx, dim1 |-> ny]

\* The launch of cuda_transpose.
TransposeLaunch(input, output) ==
    LET nx == input.size[1]
        ny == input.size[2]
        fortran_contig == (input.stride[1] = 1)
    IN [name |-> IF fortran_contig THEN "matrix_transpose_f" ELSE "matrix_transpose_c",
        grid |-> <<ceildiv(nx, TILE_DIM), ceildiv(ny, TILE_DIM)>>,
        block |-> IF fortran_contig THEN <<TILE_DIM, BLOCK_ROWS>>
                  ELSE <<BLOCK_ROWS, TILE_DIM>>,
        dev |-> input.dev,
        out |-> output.buf, in |-> input.buf, dim0 |-> nx, dim1 |-> ny]

\* Enqueue k: its threads start at pc0, each block with a fresh staging
\* tile.
Enqueue(k, pc0) ==
    /\ kernel' = k
    /\ tpc' = [t \in Threads(k) |-> pc0]
    /\ shrd' = [b \in Blocks(k) |-> EmptyTile]

\* The arguments of the next cuda_transpose call of the caller: (A, B) and
\* then (B, C).
TransposeArgs == IF host.calls = 0 THEN <<"A", "B">> ELSE <<"B", "C">>

\* torch::Tensor cuda_transpose(torch::Tensor &input, torch::Tensor &output).
\* The kernels of one stream run in order: the second call's kernel starts
\* when the first has finished.
cuda_transpose ==
    /\ host.op = "transpose"
    /\ host.pc = "ready"
    /\ host.left > 0
    /\ KernelDone
    /\ LET input == T[TransposeArgs[1]]
           output == T[TransposeArgs[2]]
           e == TransposeError(input, output)
       IN /\ err' = e
          /\ IF e # NoError
             THEN /\ host' = [host EXCEPT !.pc = "failed"]
                  /\ UNCHANGED <<kernel, tpc, shrd>>
             ELSE /\ host' = [host EXCEPT !.left = @ - 1, !.calls = @ + 1]
                  /\ Enqueue(TransposeLaunch(input, output), [ph |-> "load", k |-> 0])
    /\ UNCHANGED <<tri, T, mem, writes, fault>>

---------------------------------------------------------------------------
(* Inputs of cuda_transpose.                                               *)

NoWrites(m) == [b \in DOMAIN m |-> [i \in DOMAIN m[b] |-> 0]]

HostOf(op, left) ==
    [op |-> op, pc |-> "ready", left |-> left, calls |-> 0,
     upper |-> FALSE, preserve_diag |-> FALSE, multiplier |-> 1]

\* State before a call sequence on the handles hA, hB, hC.
Start(op, left, hA, hB, hC) ==
    /\ T = [A |-> hA, B |-> hB, C |-> hC]
    /\ mem = [A |-> [i \in 0 .. hA.size[1] * hA.size[2] - 1 |-> Tag(i)],
              B |-> [i \in 0 .. hB.size[1] * hB.size[2] - 1 |-> 0],
              C |-> [i \in 0 .. hC.size[1] * hC.size[2] - 1 |-> 0]]
    /\ writes = NoWrites(mem)
    /\ host = HostOf(op, left)
    /\ err = NoError
    /\ kernel = NoKernel
    /\ tpc = << >>
    /\ shrd = << >>
    /\ fault = FALSE
    /\ tri = NoTri

\* Well-formed calls on matrices of up to MaxDim rows and columns, spanning
\* several tiles: A is transposed into B and B into C.
InitTransposeTiles ==
    \E n0 \in 1 .. MaxDim, n1 \in 1 .. MaxDim, ord \in Orders :
        /\ n0 * n1 <= MaxElems
        /\ Start("transpose", 2,
                 Handle(n0, n1, ord, "cuda:0", "float", "A"),
                 Handle(n1, n0, ord, "cuda:0", "float", "B"),
                 Handle(n0, n1, ord, "cuda:0", "float", "C"))

\* Arbitrary calls on matrices of at most one tile: any placement, element
\* type, output shape and output storage order.
InitTransposeAny ==
    \E n0 \in 1 .. TILE_DIM, n1 \in 1 .. TILE_DIM, ord \in Orders,
       m0 \in 1 .. TILE_DIM, m1 \in 1 .. TILE_DIM, ordB \in Orders,
       devA \in Devices, devB \in Devices, dtype \in DTypes :
        Start("transpose", 1,
              Handle(n0, n1, ord, devA, dtype, "A"),
              Handle(m0, m1, ordB, devB, dtype, "B"),
              Handle(n0, n1, ord, devA, dtype, "C"))

InitTranspose == InitTransposeTiles \/ InitTransposeAny

NextTranspose ==
    \/ cuda_transpose
    \/ \E t \in DOMAIN tpc : matrix_transpose_f_load(t)
    \/ \E t \in DOMAIN tpc : matrix_transpose_f_store(t)
    \/ \E t \in DOMAIN tpc : matrix_transpose_c_load(t)
    \/ \E t \in DOMAIN tpc : matrix_transpose_c_store(t)

SpecTranspose == InitTranspose /\ [][NextTranspose]_vars

---------------------------------------------------------------------------
(* copy_simple_kernel_lower and copy_simple_kernel_upper.                  *)

Done == [ph |-> "done"]

\* Mutant: the block index is left out of the thread's row.
ThreadIndex_local(t) == ToInt(t[3])

\* const int i = blockIdx.x * blockDim.x + threadIdx.x
ThreadIndex(t) == ToInt(t[1] * kernel.block[1] + t[3])

\* The loop condition of the copy kernels: row_pos < i + i * size.
CopyCond(pc, size) == LtSizeT(pc.row_pos, pc.i + pc.i * size)

\* Position of thread i of a copy kernel at the loop head, or Done when
\* i >= size or the loop has ended.
CopyHead(pc, size) == IF CopyCond(pc, size) THEN pc ELSE Done

CopyEntry(i, size) ==
    IF LtSizeT(i, size)
    THEN CopyHead([ph |-> "loop", i |-> i, col_pos |-> ToInt(i * size), row_pos |-> i], size)
    ELSE Done

\* col_pos++ and row_pos += size.
CopyAdvance(pc, size) ==
    CopyHead([pc EXCEPT !.col_pos = ToInt(@ + 1), !.row_pos = ToInt(@ + size)], size)

\* One step of a thread of copy_simple_kernel_lower: the test i < size, or
\* one iteration data[col_pos] = data[row_pos].
copy_simple_kernel_lower(t) ==
    /\ kernel.name = "copy_simple_kernel_lower"
    /\ \/ /\ tpc[t].ph = "entry"
          /\ tpc' = [tpc EXCEPT ![t] = CopyEntry(ThreadIndex(t), kernel.size)]
          /\ UNCHANGED <<mem, writes, fault>>
       \/ /\ tpc[t].ph = "loop"
          /\ \E v \in Load(kernel.data, tpc[t].row_pos) :
                Store(kernel.data, tpc[t].col_pos, v)
          /\ fault' = (fault \/ Reach(kernel.data, tpc[t].row_pos) # "ok"
                             \/ Reach(kernel.data, tpc[t].col_pos) # "ok")
          /\ tpc' = [tpc EXCEPT ![t] = CopyAdvance(@, kernel.size)]
    /\ UNCHANGED <<tri, T, host, err, kernel, shrd>>

\* One step of a thread of copy_simple_kernel_upper: the test i < size, or
\* one iteration data[row_pos] = data[col_pos].
copy_simple_kernel_upper(t) ==
    /\ kernel.name = "copy_simple_kernel_upper"
    /\ \/ /\ tpc[t].ph = "entry"
          /\ tpc' = [tpc EXCEPT ![t] = CopyEntry(ThreadIndex(t), kernel.size)]
          /\ UNCHANGED <<mem, writes, fault>>
       \/ /\ tpc[t].ph = "loop"
          /\ \E v \in Load(kernel.data, tpc[t].col_pos) :
                Store(kernel.data, tpc[t].row_pos, v)
          /\ fault' = (fault \/ Reach(kernel.data, tpc[t].row_pos) # "ok"
                             \/ Reach(kernel.data, tpc[t].col_pos) # "ok")
          /\ tpc' = [tpc EXCEPT ![t] = CopyAdvance(@, kernel.size)]
    /\ UNCHANGED <<tri, T, host, err, kernel, shrd>>

---------------------------------------------------------------------------
(* mul_upper_diag, mul_upper, mul_lower_diag and mul_lower.                *)

\* The loop condition of a scale kernel on the pointers data and diag_stop
\* (offsets from the start of the buffer).
MulCond(name, pc) ==
    IF name = "mul_upper_diag" THEN pc.data <= pc.diag_stop
    ELSE pc.data < pc.diag_stop

MulHead(name, pc) == IF MulCond(name, pc) THEN pc ELSE Done

\* Mutant: mul_lower does not step over the diagonal.
MulStart_diag(name, i, size) ==
    IF name \in {"mul_upper_diag", "mul_upper"}
    THEN [ph |-> "loop", data |-> i * size, diag_stop |-> i * size + i]
    ELSE [ph |-> "loop", data |-> i * size + i, diag_stop |-> i * size + i + size - i]

\* data and diag_stop of thread i at its first test of the loop condition.
MulStart(name, i, size) ==
    IF name \in {"mul_upper_diag", "mul_upper"}
    THEN [ph |-> "loop", data |-> i * size, diag_stop |-> i * size + i]
    ELSE IF name = "mul_lower_diag"
    THEN [ph |-> "loop", data |-> i * size + i, diag_stop |-> i * size + i + size - i]
    ELSE [ph |-> "loop", data |-> i * size + i + 1, diag_stop |-> i * size + i + size - i]

MulEntry(name, i, size) ==
    IF LtSizeT(i, size) THEN MulHead(name, MulStart(name, i, size)) ELSE Done

\* One step of a thread of a scale kernel: the test i < size, or one
\* iteration *data *= mul; data++.
MulStep(name, t) ==
    /\ kernel.name = name
    /\ \/ /\ tpc[t].ph = "entry"
          /\ tpc' = [tpc EXCEPT ![t] = MulEntry(name, ThreadIndex(t), kernel.size)]
          /\ UNCHANGED <<mem, writes, fault>>
       \/ /\ tpc[t].ph = "loop"
          /\ \E v \in Load(kernel.data, tpc[t].data) :
                Store(kernel.data, tpc[t].data, v * kernel.mul)
          /\ Access(kernel.data, tpc[t].data)
          /\ tpc' = [tpc EXCEPT ![t] = MulHead(name, [@ EXCEPT !.data = @ + 1])]
    /\ UNCHANGED <<tri, T, host, err, kernel, shrd>>

mul_upper_diag(t) == MulStep("mul_upper_diag", t)

mul_upper(t) == MulStep("mul_upper", t)

mul_lower_diag(t) == MulStep("mul_lower_diag", t)

mul_lower(t) == MulStep("mul_lower", t)

---------------------------------------------------------------------------
(* cuda_copy_triang and cuda_mul_triang.                                   *)

\* Mutant: the half is not flipped for a row-major matrix.
FlipUpper_never(A, upper) == upper

\* if (A.stride(0) != 1) upper = !upper
FlipUpper(A, upper) == IF A.stride[1] # 1 THEN ~upper ELSE upper

\* The launch of cuda_copy_triang on the (transposed) handle A.
CopyTriangLaunch(A, upper) ==
    LET nx == A.size[1]
    IN [name |-> IF upper THEN "copy_simple_kernel_upper"
                 ELSE "copy_simple_kernel_lower",
        grid |-> <<ceildiv(nx, NB), 1>>, block |-> <<NB, 1>>,
        dev |-> A.dev, data |-> A.buf, size |-> nx]

\* torch::Tensor cuda_copy_triang(torch::Tensor &A, bool upper).  A is the
\* caller's handle: it is replaced by its transpose before the dispatch and
\* transposed back after it.
cuda_copy_triang ==
    /\ host.op = "copy_triang"
    /\ host.pc = "ready"
    /\ host.left > 0
    /\ KernelDone
    /\ LET A == T["A"]
           needs_transpose == A.stride[1] # 1
           At == IF needs_transpose THEN Transpose01(A) ELSE A
           upper == FlipUpper(A, host.upper)
       IN IF ~is_cuda(A)
          THEN /\ err' = "Input A must be a CUDA tensor."
               /\ host' = [host EXCEPT !.pc = "failed"]
               /\ UNCHANGED <<T, kernel, tpc, shrd>>
          ELSE IF ~IsFloating(At.dtype)
          THEN /\ err' = "not implemented for dtype"
               /\ host' = [host EXCEPT !.pc = "failed"]
               /\ T' = [T EXCEPT !["A"] = At]
               /\ UNCHANGED <<kernel, tpc, shrd>>
          ELSE /\ err' = NoError
               /\ host' = [host EXCEPT !.left = @ - 1, !.calls = @ + 1]
               /\ Enqueue(CopyTriangLaunch(At, upper), [ph |-> "entry"])
               /\ T' = [T EXCEPT !["A"] = IF needs_transpose THEN Transpose01(At) ELSE At]
    /\ UNCHANGED <<tri, mem, writes, fault>>

\* Mutant: the preserve flag selects the kernels that scale the diagonal.
MulTriangKernel_swapped(upper, preserve_diag) ==
    IF upper /\ preserve_diag THEN "mul_upper_diag"
    ELSE IF upper THEN "mul_upper"
    ELSE IF preserve_diag THEN "mul_lower_diag"
    ELSE "mul_lower"

\* The kernel cuda_mul_triang selects.
MulTriangKernel(upper, preserve_diag) ==
    IF upper /\ preserve_diag THEN "mul_upper"
    ELSE IF upper THEN "mul_upper_diag"
    ELSE IF preserve_diag THEN "mul_lower"
    ELSE "mul_lower_diag"

\* The launch of cuda_mul_triang.
MulTriangLaunch(A, upper, preserve_diag, multiplier) ==
    LET nx == A.size[1]
    IN [name |-> MulTriangKernel(upper, preserve_diag),
        grid |-> <<ceildiv(nx, NB), 1>>, block |-> <<NB, 1>>,
        dev |-> A.dev, data |-> A.buf, size |-> nx, mul |-> multiplier]

\* torch::Tensor cuda_mul_triang(torch::Tensor &A, bool upper,
\*     const bool preserve_diag, const double multiplier).
cuda_mul_triang ==
    /\ host.op = "mul_triang"
    /\ host.pc = "ready"
    /\ host.left > 0
    /\ KernelDone
    /\ LET A == T["A"]
           upper == FlipUpper(A, host.upper)
       IN IF ~is_cuda(A)
          THEN /\ err' = "Input A must be a CUDA tensor."
               /\ host' = [host EXCEPT !.pc = "failed"]
               /\ UNCHANGED <<kernel, tpc, shrd>>
          ELSE IF ~IsFloating(A.dtype)
          THEN /\ err' = "not implemented for dtype"
               /\ host' = [host EXCEPT !.pc = "failed"]
               /\ UNCHANGED <<kernel, tpc, shrd>>
          ELSE /\ err' = NoError
               /\ host' = [host EXCEPT !.left = @ - 1, !.calls = @ + 1]
               /\ Enqueue(MulTriangLaunch(A, upper, host.preserve_diag, host.multiplier),
                          [ph |-> "entry"])
    /\ UNCHANGED <<tri, T, mem, writes, fault>>

---------------------------------------------------------------------------
(* Inputs of cuda_copy_triang and cuda_mul_triang.                         *)

Multipliers == {1, 2}

\* State before a call of a triangular operation on the handle hA.
StartTriang(h, hA) ==
    /\ T = [A |-> hA]
    /\ mem = [A |-> [i \in 0 .. hA.size[1] * hA.size[2] - 1 |-> Tag(i)]]
    /\ writes = NoWrites(mem)
    /\ host = h
    /\ err = NoError
    /\ kernel = NoKernel
    /\ tpc = << >>
    /\ shrd = << >>
    /\ fault = FALSE
    /\ tri = NoTri

TriangCalls ==
    {[HostOf("copy_triang", 1) EXCEPT !.upper = u] : u \in BOOLEAN}
    \cup {[HostOf("mul_triang", 1) EXCEPT !.upper = u, !.preserve_diag = p,
                                          !.multiplier = m] :
              u \in BOOLEAN, p \in BOOLEAN, m \in Multipliers}

\* Float matrices on an accelerator, of up to MaxN rows and columns, square
\* or not (neither function looks at A.size(1)), spanning several blocks.
InitTriangBlocks ==
    \E n0 \in 1 .. MaxN, n1 \in 1 .. MaxN, ord \in Orders, h \in TriangCalls :
        StartTriang(h, Handle(n0, n1, ord, "cuda:0", "float", "A"))

\* Matrices of at most one block, of any placement and element type.
InitTriangAny ==
    \E n0 \in 1 .. NB, n1 \in 1 .. NB, ord \in Orders, h \in TriangCalls,
       dev \in Devices, dtype \in DTypes :
        StartTriang(h, Handle(n0, n1, ord, dev, dtype, "A"))

InitTriang == InitTriangBlocks \/ InitTriangAny

NextTriang ==
    \/ cuda_copy_triang
    \/ cuda_mul_triang
    \/ \E t \in DOMAIN tpc : copy_simple_kernel_lower(t)
    \/ \E t \in DOMAIN tpc : copy_simple_kernel_upper(t)
    \/ \E t \in DOMAIN tpc : mul_upper_diag(t)
    \/ \E t \in DOMAIN tpc : mul_upper(t)
    \/ \E t \in DOMAIN tpc : mul_lower_diag(t)
    \/ \E t \in DOMAIN tpc : mul_lower(t)

SpecTriang == InitTriang /\ [][NextTriang]_vars

---------------------------------------------------------------------------
(* tri_index_lower and tri_index_upper.                                    *)

\* Mutant: the -1 under the division is dropped.
TriRow_no_minus(linear_index) ==
    LET x == ToInt(8 * linear_index + 1)
    IN CHOOSE r \in 0 .. x : (2 * r) ^ 2 <= x /\ x < (2 * r + 2) ^ 2

\* (int)((-1 + sqrt((double)(8*linear_index + 1))) / 2.0): the largest r
\* with 2r + 1 <= sqrt(x), x = 8*linear_index + 1.  The double sqrt is
\* correctly rounded and x < 2^31, so the rounded root reaches an integer
\* only if the real root is that integer, and the truncation yields exactly
\* this r.
TriRow(linear_index) ==
    LET x == ToInt(8 * linear_index + 1)
    IN CHOOSE r \in 0 .. x : (2 * r + 1) ^ 2 <= x /\ x < (2 * r + 3) ^ 2

\* int2 tri_index_lower(const int linear_index): <<x, y>>.
tri_index_lower(linear_index) ==
    LET row == TriRow(linear_index)
    IN <<linear_index - (row * (row + 1)) \div 2, row>>

\* int2 tri_index_upper(const int linear_index): <<x, y>>.
tri_index_upper(linear_index) ==
    LET row == TriRow(linear_index)
    IN <<row, linear_index - (row * (row + 1)) \div 2>>

\* The tile vec_mul_triang_kernel_v1 works on in block blockIdx: its
\* elements are mat[(tile_pos.x + i) * mat_stride + tile_pos.y + tx], so
\* tile_pos.x counts rows (it is multiplied by the row stride) and
\* tile_pos.y columns.
VecMulTile(blockIdx) ==
    LET tile_pos == tri_index_upper(blockIdx)
    IN [row |-> tile_pos[1], col |-> tile_pos[2]]

\* dimGrid and dimBlock of cuda_vec_mul_triang for a matrix of nx rows.
VecMulGeometry(nx) ==
    LET grid_height == ceildiv(nx, block_size)
    IN [grid |-> <<(grid_height * (grid_height + 1)) \div 2, 1>>,
        block |-> <<block_size, block_size>>]

\* The index mapper applied to the next linear block index of the grid that
\* cuda_vec_mul_triang launches for tri.nx rows.
apply_tri_index_upper ==
    /\ Len(tri.upper) < VecMulGeometry(tri.nx).grid[1]
    /\ tri' = [tri EXCEPT !.upper = Append(@, tri_index_upper(Len(@)))]
    /\ UNCHANGED <<T, mem, writes, host, err, kernel, tpc, shrd, fault>>

apply_tri_index_lower ==
    /\ Len(tri.lower) < VecMulGeometry(tri.nx).grid[1]
    /\ tri' = [tri EXCEPT !.lower = Append(@, tri_index_lower(Len(@)))]
    /\ UNCHANGED <<T, mem, writes, host, err, kernel, tpc, shrd, fault>>

InitIndex ==
    \E nx \in 1 .. MaxVecN :
        /\ tri = [nx |-> nx, upper |-> << >>, lower |-> << >>]
        /\ T = << >>
        /\ mem = << >>
        /\ writes = << >>
        /\ host = HostOf("tri_index", 0)
        /\ err = NoError
        /\ kernel = NoKernel
        /\ tpc = << >>
        /\ shrd = << >>
        /\ fault = FALSE

NextIndex == apply_tri_index_upper \/ apply_tri_index_lower

SpecIndex == InitIndex /\ [][NextIndex]_vars

---------------------------------------------------------------------------
(* cuda_vec_mul_triang.                                                    *)

\* The error cuda_vec_mul_triang raises for its arguments, NoError if none.
VecMulError(A, v) ==
    IF ~is_cuda(A) THEN "Input A must be a CUDA tensor."
    ELSE IF ~is_cuda(v) THEN "Input v must be a CUDA tensor."
    ELSE IF v.dev # A.dev THEN "Inputs A, v must be on the same CUDA device."
    ELSE IF ~IsFloating(A.dtype) THEN "not implemented for dtype"
    ELSE NoError

\* The launch of cuda_vec_mul_triang.
VecMulLaunch(A, v) ==
    [name |-> "vec_mul_triang_kernel_v1",
     grid |-> VecMulGeometry(A.size[1]).grid,
     block |-> VecMulGeometry(A.size[1]).block,
     dev |-> A.dev, mat |-> A.buf, vec |-> v.buf, mat_stride |-> A.stride[1]]

\* __shared__ scalar_t v_seg[blockDim.x] and
\* __shared__ scalar_t m_tile[blockDim.x][blockDim.y] of one block.
VecMulShared(k) ==
    [v_seg |-> [x \in 0 .. k.block[1] - 1 |-> Uninit],
     m_tile |-> [c \in (0 .. k.block[1] - 1) \X (0 .. k.block[2] - 1) |-> Uninit]]

\* Enqueue vec_mul_triang_kernel_v1: every thread at the entry of the
\* kernel, every block with fresh shared memory.
VecMulEnqueue(k) ==
    /\ kernel' = k
    /\ tpc' = [t \in Threads(k) |-> [ph |-> "entry"]]
    /\ shrd' = [b \in Blocks(k) |-> VecMulShared(k)]

\* torch::Tensor cuda_vec_mul_triang(torch::Tensor &A, torch::Tensor &v,
\*     bool upper, int side).
cuda_vec_mul_triang ==
    /\ host.op = "vec_mul_triang"
    /\ host.pc = "ready"
    /\ host.left > 0
    /\ KernelDone
    /\ LET e == VecMulError(T["A"], T["v"])
       IN /\ err' = e
          /\ IF e # NoError
             THEN /\ host' = [host EXCEPT !.pc = "failed"]
                  /\ UNCHANGED <<kernel, tpc, shrd>>
             ELSE /\ host' = [host EXCEPT !.left = @ - 1, !.calls = @ + 1]
                  /\ VecMulEnqueue(VecMulLaunch(T["A"], T["v"]))
    /\ UNCHANGED <<tri, T, mem, writes, fault>>

\* Square matrices of at most one tile and vectors of their length, of any
\* placement and element type.
InitVecMul ==
    \E n \in 1 .. block_size, ord \in Orders, devA \in Devices, devV \in Devices,
       dtype \in DTypes, u \in BOOLEAN :
        /\ T = [A |-> Handle(n, n, ord, devA, dtype, "A"),
                v |-> Handle(n, 1, "F", devV, dtype, "v")]
        /\ mem = [A |-> [i \in 0 .. n * n - 1 |-> Tag(i)],
                  v |-> [i \in 0 .. n - 1 |-> Tag(i)]]
        /\ writes = NoWrites(mem)
        /\ host = [HostOf("vec_mul_triang", 1) EXCEPT !.upper = u]
        /\ err = NoError
        /\ kernel = NoKernel
        /\ tpc = << >>
        /\ shrd = << >>
        /\ fault = FALSE
        /\ tri = NoTri

\* Calls of the two operations that take two tensors.  The body of
\* vec_mul_triang_kernel_v1 is not part of this specification: it ends at
\* the launch.
InitPlacement == InitTransposeAny \/ InitVecMul

NextPlacement == NextTranspose \/ cuda_vec_mul_triang

SpecPlacement == InitPlacement /\ [][NextPlacement]_vars

---------------------------------------------------------------------------
(* vec_mul_triang_kernel_v1.                                               *)

\* a * b on scalar_t; a value loaded from outside a buffer stays arbitrary.
ScalarMul(a, b) ==
    IF a \in Garbage THEN a ELSE IF b \in Garbage THEN b ELSE a * b

\* (tile_pos.x + i) * mat_stride + tile_pos.y + tx
VecMulOffset(pc, tx) ==
    (pc.tile_pos[1] + pc.i) * kernel.mat_stride + pc.tile_pos[2] + tx

\* Position after iteration pc.i of a loop for (i = 0; i < blockDim.y; i++).
VecMulLoop(pc, after) ==
    IF pc.i + 1 < kernel.block[2] THEN [pc EXCEPT !.i = @ + 1]
    ELSE [pc EXCEPT !.ph = after, !.i = 0]

\* One step of thread (tx, ty) of vec_mul_triang_kernel_v1: the computation
\* of tile_pos, one iteration of the load loop, the load of v_seg[tx], one
\* iteration of the scaling loop, or one iteration of the write-back loop.
\* The kernel has no barrier and never reads ty.
vec_mul_triang_kernel_v1(t) ==
    /\ kernel.name = "vec_mul_triang_kernel_v1"
    /\ LET tx == t[3]
           b == BlockOf(t)
           pc == tpc[t]
       IN \/ /\ pc.ph = "entry"
             /\ tpc' = [tpc EXCEPT ![t] = [ph |-> "load", i |-> 0,
                                           tile_pos |-> tri_index_upper(t[1])]]
             /\ UNCHANGED <<mem, writes, shrd, fault>>
          \/ /\ pc.ph = "load"
             /\ \E v \in Load(kernel.mat, VecMulOffset(pc, tx)) :
                   shrd' = [shrd EXCEPT ![b].m_tile[<<tx, pc.i>>] = v]
             /\ Access(kernel.mat, VecMulOffset(pc, tx))
             /\ tpc' = [tpc EXCEPT ![t] = VecMulLoop(pc, "v_seg")]
             /\ UNCHANGED <<mem, writes>>
          \/ /\ pc.ph = "v_seg"
             /\ \E v \in Load(kernel.vec, pc.tile_pos[1] + tx) :
                   shrd' = [shrd EXCEPT ![b].v_seg[tx] = v]
             /\ Access(kernel.vec, pc.tile_pos[1] + tx)
             /\ tpc' = [tpc EXCEPT ![t] = [pc EXCEPT !.ph = "calc"]]
             /\ UNCHANGED <<mem, writes>>
          \/ /\ pc.ph = "calc"
             /\ shrd' = [shrd EXCEPT ![b].m_tile[<<tx, pc.i>>] =
                                         ScalarMul(@, shrd[b].v_seg[tx])]
             /\ tpc' = [tpc EXCEPT ![t] = VecMulLoop(pc, "store")]
             /\ UNCHANGED <<mem, writes, fault>>
          \/ /\ pc.ph = "store"
             /\ Store(kernel.mat, VecMulOffset(pc, tx), shrd[b].m_tile[<<tx, pc.i>>])
             /\ Access(kernel.mat, VecMulOffset(pc, tx))
             /\ tpc' = [tpc EXCEPT ![t] = VecMulLoop(pc, "done")]
             /\ UNCHANGED shrd
    /\ UNCHANGED <<tri, T, host, err, kernel>>

\* Calls of cuda_vec_mul_triang on a float matrix of one tile and a vector
\* of its length, on one accelerator.
InitVecMulTile ==
    \E ord \in Orders, u \in BOOLEAN :
        /\ T = [A |-> Handle(block_size, block_size, ord, "cuda:0", "float", "A"),
                v |-> Handle(block_size, 1, "F", "cuda:0", "float", "v")]
        /\ mem = [A |-> [i \in 0 .. block_size * block_size - 1 |-> Tag(i)],
                  v |-> [i \in 0 .. block_size - 1 |-> Tag(i)]]
        /\ writes = NoWrites(mem)
        /\ host = [HostOf("vec_mul_triang", 1) EXCEPT !.upper = u]
        /\ err = NoError
        /\ kernel = NoKernel
        /\ tpc = << >>
        /\ shrd = << >>
        /\ fault = FALSE
        /\ tri = NoTri

NextVecMul ==
    \/ cuda_vec_mul_triang
    \/ \E t \in DOMAIN tpc : vec_mul_triang_kernel_v1(t)

SpecVecMul == InitVecMulTile /\ [][NextVecMul]_vars

---------------------------------------------------------------------------
(* Properties of cuda_transpose.                                           *)

\* The handles of the last cuda_transpose call that launched a kernel.
LastIn == T[IF host.calls = 1 THEN "A" ELSE "B"]
LastOut == T[IF host.calls = 1 THEN "B" ELSE "C"]

\* Both tensors are contiguous in one and the same storage order.
SameOrder(g, h) ==
    \E ord \in Orders :
        /\ g.stride = StridesOf(g.size[1], g.size[2], ord)
        /\ h.stride = StridesOf(h.size[1], h.size[2], ord)

TransposeFinished ==
    /\ host.op = "transpose"
    /\ host.calls >= 1
    /\ KernelDone

\* out is the exact transpose of in.
IsTransposeOf(out, in) ==
    \A i \in 0 .. in.size[1] - 1, j \in 0 .. in.size[2] - 1 :
        Elem(out, j, i) = Elem(in, i, j)

\* C1: once the kernel launched by cuda_transpose(input, output) has
\* finished, with input and output on one device and in the same storage
\* order, every output element (j, i) equals input element (i, j) -- for
\* column-major inputs (matrix_transpose_f) and row-major inputs
\* (matrix_transpose_c), full and partial tiles, whatever the interleaving
\* of the threads was.
C1_TransposeExact ==
    (TransposeFinished /\ LastIn.dev = LastOut.dev /\ SameOrder(LastIn, LastOut))
        => IsTransposeOf(LastOut, LastIn)

\* C1 witnesses: a finished transpose of a matrix with a partial edge tile
\* in both dimensions, by either kernel.
C1_Witness ==
    /\ TransposeFinished
    /\ host.calls = 1
    /\ kernel.name = "matrix_transpose_c"
    /\ T["A"].size = <<3, 3>>
    /\ IsTransposeOf(T["B"], T["A"])

\* C7: after cuda_transpose(A, B) and cuda_transpose(B, C) have both
\* finished, C equals A element for element.
C7_TransposeInvolutive ==
    (TransposeFinished /\ host.calls = 2)
        => \A i \in 0 .. T["A"].size[1] - 1, j \in 0 .. T["A"].size[2] - 1 :
               /\ Elem(T["C"], i, j) = Elem(T["A"], i, j)
               /\ Elem(T["A"], i, j) = Tag(Off(T["A"], i, j))

\* C7 witness: both transposes of a rectangular, non-square matrix with
\* partial tiles have finished and C holds the values of A.
C7_Witness ==
    /\ TransposeFinished
    /\ host.calls = 2
    /\ T["A"].size = <<3, 2>>
    /\ mem["C"] = [i \in 0 .. 5 |-> Tag(i)]

ShapeMismatch(input, output) ==
    output.size # <<input.size[2], input.size[1]>>

\* C8: cuda_transpose(A, B) with B not of shape (A.size(1), A.size(0))
\* launches no kernel and stores to no element of B; the call fails, and
\* with both tensors on an accelerator the failure is the shape-mismatch
\* error.
C8_ShapeMismatchFails ==
    (host.op = "transpose" /\ ShapeMismatch(T["A"], T["B"]))
        => /\ kernel = NoKernel
           /\ \A i \in DOMAIN mem["B"] : writes["B"][i] = 0 /\ mem["B"][i] = 0
           /\ host.pc = "ready" \/ (host.pc = "failed" /\ err # NoError)
           /\ (host.pc = "failed" /\ is_cuda(T["A"]) /\ is_cuda(T["B"]))
                  => err = "Input and output matrices must be of the same size."

\* C8 witness: a call with device-resident tensors of mismatched shapes has
\* failed with the shape-mismatch error.
C8_Witness ==
    /\ host.op = "transpose"
    /\ ShapeMismatch(T["A"], T["B"])
    /\ T["A"].size[1] = T["B"].size[2]
    /\ host.pc = "failed"
    /\ err = "Input and output matrices must be of the same size."

---------------------------------------------------------------------------
(* Properties of cuda_copy_triang and cuda_mul_triang.                     *)

Square(h) == h.size[1] = h.size[2]

\* (i, j) lies in the logical half, diagonal included / excluded.
InHalf(upper, i, j) == IF upper THEN i <= j ELSE i >= j
StrictlyInHalf(upper, i, j) == IF upper THEN i < j ELSE i > j

\* Logical element (i, j) of A holds the value it had before the call.
Untouched(i, j) == Elem(T["A"], i, j) = Tag(Off(T["A"], i, j))

\* Logical element (i, j) of A was never stored to.
NeverWritten(i, j) == writes["A"][Off(T["A"], i, j)] = 0

\* Logical element (i, j) of A was multiplied by the multiplier exactly once.
ScaledOnce(i, j) ==
    /\ writes["A"][Off(T["A"], i, j)] = 1
    /\ Elem(T["A"], i, j) = Tag(Off(T["A"], i, j)) * host.multiplier

Rows == 0 .. T["A"].size[1] - 1

TriangFinished(op) ==
    /\ host.op = op
    /\ host.calls = 1
    /\ KernelDone
    /\ Square(T["A"])

ExpectedMulKernel(row_major, upper, preserve_diag) ==
    CASE (upper # row_major) /\ preserve_diag -> "mul_upper"
      [] (upper # row_major) /\ ~preserve_diag -> "mul_upper_diag"
      [] (upper = row_major) /\ preserve_diag -> "mul_lower"
      [] OTHER -> "mul_lower_diag"

\* C3: once the kernel launched by cuda_mul_triang(A, H, p, m) on a square
\* matrix has finished, every element strictly inside the logical H half
\* has been multiplied by m exactly once, and so has every diagonal element
\* when p is false; the kernel launched is the one for (H flipped iff the
\* matrix is row-major, p).
C3_MulTriangScales ==
    TriangFinished("mul_triang")
        => /\ \A i \in Rows, j \in Rows :
                 /\ StrictlyInHalf(host.upper, i, j) => ScaledOnce(i, j)
                 /\ (i = j /\ ~host.preserve_diag) => ScaledOnce(i, j)
           /\ kernel.name = ExpectedMulKernel(T["A"].stride[1] # 1, host.upper,
                                              host.preserve_diag)

\* C3 witness: the lower half and the diagonal of a row-major matrix of
\* MaxN rows were doubled.
C3_Witness ==
    /\ TriangFinished("mul_triang")
    /\ ~host.upper
    /\ ~host.preserve_diag
    /\ host.multiplier = 2
    /\ T["A"].size = <<MaxN, MaxN>>
    /\ T["A"].stride[1] # 1
    /\ Elem(T["A"], MaxN - 1, 0) = 2 * Tag(Off(T["A"], MaxN - 1, 0))
    /\ Elem(T["A"], 1, 1) = 2 * Tag(Off(T["A"], 1, 1))

\* C4: in every state of a cuda_mul_triang call on a square matrix, no
\* element of the strict opposite half has been stored to or changed, and
\* with the preserve flag set no diagonal element has been stored to or
\* changed.
C4_MulTriangFrame ==
    (host.op = "mul_triang" /\ Square(T["A"]))
        => \A i \in Rows, j \in Rows :
               /\ StrictlyInHalf(~host.upper, i, j)
                      => (NeverWritten(i, j) /\ Untouched(i, j))
               /\ (i = j /\ host.preserve_diag)
                      => (NeverWritten(i, j) /\ Untouched(i, j))

\* C4 witness: a finished call with the preserve flag set that scaled the
\* strict lower half of a row-major matrix of MaxN rows.
C4_Witness ==
    /\ TriangFinished("mul_triang")
    /\ ~host.upper
    /\ host.preserve_diag
    /\ T["A"].size = <<MaxN, MaxN>>
    /\ T["A"].stride[1] # 1
    /\ writes["A"][Off(T["A"], MaxN - 1, 0)] = 1
    /\ \A i \in Rows : NeverWritten(i, i)

\* C10: cuda_copy_triang and cuda_mul_triang given a non-square matrix fail
\* with an error, launch no kernel and leave the matrix data unchanged.
C10_NonSquareFails ==
    (host.op \in {"copy_triang", "mul_triang"} /\ ~Square(T["A"]))
        => /\ kernel = NoKernel
           /\ host.calls = 0
           /\ \A k \in DOMAIN mem["A"] : mem["A"][k] = Tag(k)

---------------------------------------------------------------------------
(* Properties of the index mapper and of the placement checks.             *)

\* Tile rows of the grid for tri.nx matrix rows: the least g with
\* g * block_size >= nx.
TileRows ==
    CHOOSE g \in 1 .. tri.nx :
        g * block_size >= tri.nx /\ (g - 1) * block_size < tri.nx

\* The cells (r, c), c <= r, of one triangle of the TileRows x TileRows grid.
Triangle == {p \in (0 .. TileRows - 1) \X (0 .. TileRows - 1) : p[2] <= p[1]}

\* The pair computed for linear index i, as <<row, offset>>.
RowOffset(pairs, swapped, i) ==
    IF swapped THEN <<pairs[i + 1][2], pairs[i + 1][1]>> ELSE pairs[i + 1]

\* The pairs computed for the linear indices 0 .. Len(pairs) - 1 are the
\* first Len(pairs) cells of the triangle in row order, without duplicates,
\* and all of it once every block index has been mapped.
EnumeratesTriangle(pairs, swapped) ==
    LET cells == {RowOffset(pairs, swapped, i) : i \in 0 .. Len(pairs) - 1}
    IN /\ \A i \in 0 .. Len(pairs) - 1 :
             LET row == RowOffset(pairs, swapped, i)[1]
                 off == RowOffset(pairs, swapped, i)[2]
             IN /\ (row * (row + 1)) \div 2 <= i
                /\ i < ((row + 1) * (row + 2)) \div 2
                /\ off = i - (row * (row + 1)) \div 2
                /\ off \in 0 .. row
                /\ row < TileRows
       /\ Cardinality(cells) = Len(pairs)
       /\ cells \subseteq Triangle
       /\ Len(pairs) = VecMulGeometry(tri.nx).grid[1] => cells = Triangle

C6_IndexInNamedTriangle ==
    host.op = "tri_index"
        => /\ \A i \in 1 .. Len(tri.upper) :
                 /\ tri.upper[i][1] <= tri.upper[i][2]
                 /\ VecMulTile(i - 1).row <= VecMulTile(i - 1).col
           /\ \A i \in 1 .. Len(tri.lower) : tri.lower[i][1] >= tri.lower[i][2]

\* The tensors of a call that takes two.
TwoArgs ==
    IF host.op = "transpose" THEN <<T["A"], T["B"]>> ELSE <<T["A"], T["v"]>>

\* C9: cuda_vec_mul_triang and cuda_transpose called with tensors that
\* reside on different accelerator devices launch no kernel and fail with a
\* placement error.
C9_DeviceMismatchFails ==
    (/\ host.op \in {"transpose", "vec_mul_triang"}
     /\ is_cuda(TwoArgs[1])
     /\ is_cuda(TwoArgs[2])
     /\ TwoArgs[1].dev # TwoArgs[2].dev)
        => /\ kernel = NoKernel
           /\ host.calls = 0
           /\ host.pc = "failed" => err # NoError

---------------------------------------------------------------------------
(* Argument validation of the four host functions.                         *)

\* Calls of all four host functions on tensors of any placement and element
\* type.
InitValidation == InitTransposeAny \/ InitVecMul \/ InitTriangAny

NextValidation == NextTranspose \/ NextTriang \/ cuda_vec_mul_triang

SpecValidation == InitValidation /\ [][NextValidation]_vars

\* The tensor arguments of the host function that is called.
ArgsOf(op) ==
    CASE op = "transpose" -> {"A", "B"}
      [] op = "vec_mul_triang" -> {"A", "v"}
      [] OTHER -> {"A"}

\* Some argument is host-resident, or the element type is not floating.
InvalidArgs ==
    \/ \E a \in ArgsOf(host.op) : ~is_cuda(T[a])
    \/ T["A"].dtype \notin {"float", "double"}

\* Every buffer holds what it held before the call and was never stored to.
DataAsBefore ==
    \A b \in DOMAIN mem : \A k \in DOMAIN mem[b] :
        /\ writes[b][k] = 0
        /\ mem[b][k] = IF b \in {"A", "v"} THEN Tag(k) ELSE 0

\* C11: when an argument of cuda_vec_mul_triang, cuda_copy_triang,
\* cuda_mul_triang or cuda_transpose is not device-resident, or the element
\* type is not floating-point, no call ever succeeds and no kernel is ever
\* enqueued: a call that was made has failed with an error, and the data of
\* every tensor is as before the call.
C11_InvalidArgsLaunchNothing ==
    InvalidArgs
        => /\ kernel = NoKernel
           /\ tpc = << >>
           /\ host.calls = 0
           /\ host.pc = "failed" => err # NoError
           /\ DataAsBefore

\* C11 witnesses: a call on a device-resident tensor of a non-floating type
\* has failed in the dispatch.
C11_Witness ==
    /\ host.op = "mul_triang"
    /\ is_cuda(T["A"])
    /\ T["A"].dtype = "int"
    /\ host.pc = "failed"
    /\ err = "not implemented for dtype"
    /\ DataAsBefore

---------------------------------------------------------------------------
(* The dispatch lambdas and the device guard.                              *)
(*                                                                         *)
(* Here a host function is followed statement by statement: its checks and *)
(* AT_DISPATCH_FLOATING_TYPES, then inside the lambda                      *)
(* getCurrentCUDAStream(), the constructor of at::DeviceGuard, the launch  *)
(* and the destructor of the guard.  host.device is the current device of  *)
(* the calling thread, host.stream the device that owns the stream         *)
(* obtained, host.guard the device saved by the live guard.  The launch is *)
(* recorded with the stream it was given and the device that was current;  *)
(* the kernels' bodies are not part of this specification.                 *)

NoStream == "none"
NoGuard == "none"

\* The error cuda_copy_triang and cuda_mul_triang raise, NoError if none.
TriangError(A) ==
    IF ~is_cuda(A) THEN "Input A must be a CUDA tensor."
    ELSE IF ~IsFloating(A.dtype) THEN "not implemented for dtype"
    ELSE NoError

\* The error raised before the lambda of the host function op is entered.
DispatchError(op) ==
    CASE op = "transpose" -> TransposeError(T["A"], T["B"])
      [] op = "vec_mul_triang" -> VecMulError(T["A"], T["v"])
      [] OTHER -> TriangError(T["A"])

\* The <<<...>>> launch inside the lambda of the host function op.
DispatchLaunch(op) ==
    CASE op = "transpose" -> TransposeLaunch(T["A"], T["B"])
      [] op = "vec_mul_triang" -> VecMulLaunch(T["A"], T["v"])
      [] op = "copy_triang" ->
            CopyTriangLaunch(IF T["A"].stride[1] # 1 THEN Transpose01(T["A"])
                             ELSE T["A"],
                             FlipUpper(T["A"], host.upper))
      [] OTHER -> MulTriangLaunch(T["A"], FlipUpper(T["A"], host.upper),
                                  host.preserve_diag, host.multiplier)

\* The tensors whose data_ptr<scalar_t>() is taken for the launch; it raises
\* for a tensor whose element type is not scalar_t, the type of A.
LaunchPointers(op) ==
    CASE op = "transpose" -> {"A", "B"}
      [] op = "vec_mul_triang" -> {"A", "v"}
      [] OTHER -> {"A"}

\* The checks of the host function and AT_DISPATCH_FLOATING_TYPES: an error
\* is raised, or the lambda is entered.
dispatch_enter ==
    /\ host.pc = "ready"
    /\ LET e == DispatchError(host.op)
       IN /\ err' = e
          /\ host' = [host EXCEPT !.pc = IF e # NoError THEN "failed" ELSE "lambda"]
    /\ UNCHANGED <<T, mem, writes, kernel, tpc, shrd, fault, tri>>

\* at::cuda::CUDAStream stream = at::cuda::getCurrentCUDAStream(): the
\* current stream of the device that is current at this statement.
getCurrentCUDAStream ==
    /\ host.pc = "lambda"
    /\ host' = [host EXCEPT !.pc = "stream", !.stream = host.device]
    /\ UNCHANGED <<T, mem, writes, err, kernel, tpc, shrd, fault, tri>>

\* at::DeviceGuard g(A.device()): saves the current device and makes
\* A.device() current.
DeviceGuard ==
    /\ host.pc = "stream"
    /\ host' = [host EXCEPT !.pc = "guarded", !.guard = host.device,
                            !.device = T["A"].dev]
    /\ UNCHANGED <<T, mem, writes, err, kernel, tpc, shrd, fault, tri>>

\* kernel<<<dimGrid, dimBlock, 0, stream.stream()>>>(... data_ptr ...).
dispatch_launch ==
    /\ host.pc = "guarded"
    /\ IF \E a \in LaunchPointers(host.op) : T[a].dtype # T["A"].dtype
       THEN /\ err' = "expected scalar type"
            /\ host' = [host EXCEPT !.pc = "thrown"]
            /\ UNCHANGED kernel
       ELSE /\ kernel' = DispatchLaunch(host.op)
                             @@ [stream |-> host.stream, current |-> host.device]
            /\ host' = [host EXCEPT !.pc = "launched", !.calls = @ + 1]
            /\ UNCHANGED err
    /\ UNCHANGED <<T, mem, writes, tpc, shrd, fault, tri>>

\* Mutant: the guard leaves the device it set.
GuardRestore_none(h) == h.device

\* The device that is current once the guard is destroyed.
GuardRestore(h) == h.guard

\* ~DeviceGuard at the end of the lambda, or while the exception of the
\* launch statement unwinds it.
DeviceGuard_exit ==
    /\ host.pc \in {"launched", "thrown"}
    /\ host' = [host EXCEPT !.pc = IF host.pc = "launched" THEN "returned"
                                   ELSE "failed",
                            !.device = GuardRestore(host),
                            !.guard = NoGuard]
    /\ UNCHANGED <<T, mem, writes, err, kernel, tpc, shrd, fault, tri>>

\* The caller's state before a call: d0 is the current device of the
\* calling thread.
HostOn(h, d0) ==
    h @@ [device |-> d0, entry_device |-> d0, stream |-> NoStream,
          guard |-> NoGuard]

\* One call of each host function, on 1 x 1 tensors of any placement and
\* element type, from a thread whose current device is either accelerator.
InitDispatch ==
    \E h \in TriangCalls \cup {HostOf("transpose", 1), HostOf("vec_mul_triang", 1)},
       d0 \in Devices \ {"cpu"}, devA \in Devices, dev2 \in Devices,
       dtype \in DTypes, dtype2 \in DTypes :
        /\ h.multiplier = 1
        /\ T = CASE h.op = "transpose" ->
                        [A |-> Handle(1, 1, "F", devA, dtype, "A"),
                         B |-> Handle(1, 1, "F", dev2, dtype2, "B")]
                 [] h.op = "vec_mul_triang" ->
                        [A |-> Handle(1, 1, "F", devA, dtype, "A"),
                         v |-> Handle(1, 1, "F", dev2, dtype2, "v")]
                 [] OTHER -> [A |-> Handle(1, 1, "F", devA, dtype, "A")]
        /\ h.op \in {"copy_triang", "mul_triang"} => (dev2 = devA /\ dtype2 = dtype)
        /\ mem = [a \in DOMAIN T |-> [i \in {0} |-> Tag(i)]]
        /\ writes = NoWrites(mem)
        /\ host = HostOn(h, d0)
        /\ err = NoError
        /\ kernel = NoKernel
        /\ tpc = << >>
        /\ shrd = << >>
        /\ fault = FALSE
        /\ tri = NoTri

NextDispatch ==
    \/ dispatch_enter
    \/ getCurrentCUDAStream
    \/ DeviceGuard
    \/ dispatch_launch
    \/ DeviceGuard_exit

SpecDispatch == InitDispatch /\ [][NextDispatch]_vars

\* C12: every kernel is enqueued while the device of the argument is the
\* current device and on a stream of that device, whatever the current
\* device of the calling thread was: the stream was obtained, and the launch
\* made, under the device guard.
C12_LaunchUnderGuard ==
    kernel # NoKernel
        => /\ kernel.current = T["A"].dev
           /\ kernel.stream = T["A"].dev

\* C19: when a call has ended -- returned, failed in the checks or the type
\* dispatch, or failed inside the lambda -- the current device of the
\* calling thread is the one it was before the call and no guard is alive.
C19_DeviceRestored ==
    host.pc \in {"returned", "failed"}
        => /\ host.device = host.entry_device
           /\ host.guard = NoGuard

\* C19 witness: a call whose guard switched the device has returned, with
\* the caller's device current again.
C19_Witness ==
    /\ host.pc = "returned"
    /\ kernel # NoKernel
    /\ kernel.current # host.entry_device
    /\ host.device = host.entry_device

---------------------------------------------------------------------------
(* The staging tile of the transpose kernels.                              *)

IsF == kernel.name = "matrix_transpose_f"

\* The values of repeat in the loops of the running transpose kernel:
\* repeat = 0; repeat < TILE_DIM; repeat += blockDim.y (blockDim.x in
\* matrix_transpose_c).
Repeats ==
    LET step == IF IsF THEN kernel.block[2] ELSE kernel.block[1]
    IN {r \in 0 .. TILE_DIM - 1 : r % step = 0}

\* The bounds guard of the load loop for thread t and iteration repeat, and
\* the staging cell the iteration stores to.
LoadGuard(t, repeat) ==
    LET gx == t[3] + TILE_DIM * t[1]
        gy == t[4] + TILE_DIM * t[2]
    IN IF IsF THEN gx < kernel.dim0 /\ gy + repeat < kernel.dim1
       ELSE gx + repeat < kernel.dim0 /\ gy < kernel.dim1

StagingWritten(t, repeat) ==
    IF IsF THEN <<t[4] + repeat, t[3]>> ELSE <<t[3] + repeat, t[4]>>

\* The bounds guard of the write-back loop for thread t and iteration
\* repeat, and the staging cell the iteration reads.
WriteBackGuard(t, repeat) ==
    LET gx == t[3] + TILE_DIM * t[2]
        gy == t[4] + TILE_DIM * t[1]
    IN IF IsF THEN gx < kernel.dim1 /\ gy + repeat < kernel.dim0
       ELSE gx + repeat < kernel.dim1 /\ gy < kernel.dim0

StagingRead(t, repeat) ==
    IF IsF THEN <<t[3], t[4] + repeat>> ELSE <<t[4], t[3] + repeat>>

\* The iterations of its load loop that thread t has executed.
LoadsDone(t) ==
    IF tpc[t].ph = "load" THEN {r \in Repeats : r < tpc[t].k} ELSE Repeats

\* Thread t has read the staging tile, or is past the write-back loop.
HasRead(t) == tpc[t].ph = "done" \/ (tpc[t].ph = "store" /\ tpc[t].k > 0)

\* The (thread, iteration) pairs of the launch whose load guard holds.
Fills == {p \in (DOMAIN tpc) \X Repeats : LoadGuard(p[1], p[2])}

\* The launch has been made and no thread has taken a step.
JustLaunched == \A t \in DOMAIN tpc : tpc[t] = [ph |-> "load", k |-> 0]

\* C13: in both transpose kernels and every block, partial edge tiles
\* included: every thread goes through its load loop to the barrier whether
\* or not its bounds guards hold; no thread reads the staging tile while a
\* thread of its block is still in the load phase; no two iterations of any
\* threads of a block store to the same staging cell; the cells of the
\* staging tile that hold a value are exactly those of the executed load
\* iterations whose guard held; every cell the write-back guard selects is
\* one the load guard filled, so a thread past the barrier reads an
\* initialised cell and no uninitialised value reaches the output.
C13_StagingTileDiscipline ==
    (host.op = "transpose" /\ kernel # NoKernel)
        => /\ \A t \in DOMAIN tpc :
                 /\ tpc[t].ph = "load"
                        => ENABLED (matrix_transpose_f_load(t)
                                        \/ matrix_transpose_c_load(t))
                 /\ (tpc[t].ph = "store" /\ BarrierOpen(t))
                        => ENABLED (matrix_transpose_f_store(t)
                                        \/ matrix_transpose_c_store(t))
           /\ \A t \in DOMAIN tpc :
                 HasRead(t) => \A u \in DOMAIN tpc :
                                   BlockOf(t) = BlockOf(u) => tpc[u].ph # "load"
           /\ JustLaunched
                 => LET fills == Fills
                    IN /\ \A p \in fills, q \in fills :
                              (p # q /\ BlockOf(p[1]) = BlockOf(q[1]))
                                  => StagingWritten(p[1], p[2]) # StagingWritten(q[1], q[2])
                       /\ \A t \in DOMAIN tpc, r \in Repeats :
                              WriteBackGuard(t, r)
                                  => \E p \in fills :
                                         /\ BlockOf(p[1]) = BlockOf(t)
                                         /\ StagingWritten(p[1], p[2]) = StagingRead(t, r)
           /\ \A t \in DOMAIN tpc, r \in Repeats :
                 LoadGuard(t, r)
                     => (shrd[BlockOf(t)][StagingWritten(t, r)] # Uninit
                             <=> r \in LoadsDone(t))
           /\ \A b \in DOMAIN shrd : \A c \in DOMAIN shrd[b] :
                 shrd[b][c] # Uninit
                     => \E t \in DOMAIN tpc, r \in Repeats :
                            /\ BlockOf(t) = b
                            /\ LoadGuard(t, r)
                            /\ StagingWritten(t, r) = c
           /\ \A t \in DOMAIN tpc :
                 (tpc[t].ph = "store" /\ BarrierOpen(t) /\ WriteBackGuard(t, tpc[t].k))
                     => shrd[BlockOf(t)][StagingRead(t, tpc[t].k)] # Uninit
           /\ \A k \in DOMAIN mem[kernel.out] : mem[kernel.out][k] # Uninit

\* C13 witness: matrix_transpose_c has finished on a 3 x 3 matrix; the
\* partial edge tiles hold cells that were never filled, and every output
\* element was stored to once.
C13_Witness ==
    /\ TransposeFinished
    /\ host.calls = 1
    /\ kernel.name = "matrix_transpose_c"
    /\ T["A"].size = <<3, 3>>
    /\ shrd[<<1, 1>>][<<0, 0>>] # Uninit
    /\ shrd[<<1, 1>>][<<1, 1>>] = Uninit
    /\ shrd[<<0, 1>>][<<1, 0>>] # Uninit
    /\ shrd[<<0, 1>>][<<1, 1>>] = Uninit
    /\ \A k \in DOMAIN mem["B"] : writes["B"][k] = 1

---------------------------------------------------------------------------
(* Data races of the copy and scale kernels.                               *)

\* The element the next iteration of thread t stores to, and the element it
\* loads, as offsets into the buffer.
NextWrite(t) ==
    IF kernel.name = "copy_simple_kernel_lower" THEN tpc[t].col_pos
    ELSE IF kernel.name = "copy_simple_kernel_upper" THEN tpc[t].row_pos
    ELSE tpc[t].data

NextRead(t) ==
    IF kernel.name = "copy_simple_kernel_lower" THEN tpc[t].row_pos
    ELSE IF kernel.name = "copy_simple_kernel_upper" THEN tpc[t].col_pos
    ELSE tpc[t].data

\* The value of logical element (i, j) after the call, as a function of the
\* input alone.
FinalValue(i, j) ==
    IF host.op = "copy_triang"
    THEN IF InHalf(host.upper, i, j) THEN Tag(Off(T["A"], i, j))
         ELSE Tag(Off(T["A"], j, i))
    ELSE IF StrictlyInHalf(host.upper, i, j) \/ (i = j /\ ~host.preserve_diag)
         THEN Tag(Off(T["A"], i, j)) * host.multiplier
         ELSE Tag(Off(T["A"], i, j))

---------------------------------------------------------------------------
(* Properties of vec_mul_triang_kernel_v1.                                 *)

\* C15: in a launch of vec_mul_triang_kernel_v1 no two distinct threads are
\* about to store to the same matrix element or to the same staging cell,
\* no matrix element is stored to more than once, and when the kernel has
\* finished every element of the tile has been stored to exactly once and
\* holds its input multiplied by one element of the vector.
C15_VecMulExactlyOnce ==
    (host.op = "vec_mul_triang" /\ kernel # NoKernel)
        => /\ \A t \in DOMAIN tpc, u \in DOMAIN tpc :
                 (t # u /\ BlockOf(t) = BlockOf(u) /\ tpc[t].ph = tpc[u].ph
                        /\ tpc[t].ph \in {"load", "calc", "store"})
                     => <<t[3], tpc[t].i>> # <<u[3], tpc[u].i>>
           /\ \A k \in DOMAIN writes["A"] : writes["A"][k] <= 1
           /\ KernelDone
                 => \A k \in DOMAIN mem["A"] :
                        /\ writes["A"][k] = 1
                        /\ \E j \in DOMAIN mem["v"] : mem["A"][k] = Tag(k) * Tag(j)


---------------------------------------------------------------------------
(* The caller's handle across cuda_copy_triang.                            *)

\* C16: the logical transpose cuda_copy_triang applies to a row-major
\* matrix is undone on every exit path: whether the call returns or fails,
\* the caller's handle A has the same shape and strides as before the call.
C16_HandleRestored ==
    [][host.op = "copy_triang" => T'["A"] = T["A"]]_vars


---------------------------------------------------------------------------
(* Memory safety of the copy, scale and transpose kernels.                 *)

InitKernels == InitTranspose \/ InitTriang

NextKernels == NextTranspose \/ NextTriang

SpecKernels == InitKernels /\ [][NextKernels]_vars

CopyKernels == {"copy_simple_kernel_lower", "copy_simple_kernel_upper"}

MulKernels == {"mul_upper_diag", "mul_upper", "mul_lower_diag", "mul_lower"}

TransposeKernels == {"matrix_transpose_f", "matrix_transpose_c"}

\* The global-memory accesses <<buffer, index>> of the next step of thread
\* t of the running kernel.
PendingAccesses(t) ==
    LET pc == tpc[t]
        lx == t[3]
        ly == t[4]
    IN IF kernel.name \in CopyKernels /\ pc.ph = "loop"
       THEN {<<kernel.data, pc.row_pos>>, <<kernel.data, pc.col_pos>>}
       ELSE IF kernel.name \in MulKernels /\ pc.ph = "loop"
       THEN {<<kernel.data, pc.data>>}
       ELSE IF kernel.name \in TransposeKernels /\ pc.ph = "load"
               /\ LoadGuard(t, pc.k)
       THEN LET gx == lx + TILE_DIM * t[1]
                gy == ly + TILE_DIM * t[2]
            IN {<<kernel.in, IF IsF THEN (gy + pc.k) * kernel.dim0 + gx
                             ELSE (gx + pc.k) * kernel.dim1 + gy>>}
       ELSE IF kernel.name \in TransposeKernels /\ pc.ph = "store"
               /\ WriteBackGuard(t, pc.k)
       THEN LET gx == lx + TILE_DIM * t[2]
                gy == ly + TILE_DIM * t[1]
            IN {<<kernel.out, IF IsF THEN (gy + pc.k) * kernel.dim1 + gx
                              ELSE (gx + pc.k) * kernel.dim0 + gy>>}
       ELSE {}

\* The buffers the running kernel has pointers to.
KernelBuffers ==
    IF kernel.name \in TransposeKernels THEN {kernel.in, kernel.out}
    ELSE IF kernel.name \in CopyKernels \cup MulKernels THEN {kernel.data}
    ELSE {}

\* A launch on valid inputs: a triangular kernel on a square matrix, a
\* transpose kernel on any n0 x n1 matrix (its output has passed the shape
\* check).
ValidLaunch ==
    /\ kernel.name \in CopyKernels \cup MulKernels \cup TransposeKernels
    /\ kernel.name \in CopyKernels \cup MulKernels =>
           T[kernel.data].size[1] = T[kernel.data].size[2]

\* A thread with no work: its row is not below size, or every iteration of
\* its loops falls outside the matrix.
Surplus(t) ==
    IF kernel.name \in TransposeKernels
    THEN \A r \in Repeats : ~LoadGuard(t, r) /\ ~WriteBackGuard(t, r)
    ELSE ~(ThreadIndex(t) >= 0 /\ ThreadIndex(t) < kernel.size)

---------------------------------------------------------------------------
(* The element offsets of the copy kernels on large matrices.              *)

\* The threads followed on a large matrix: those of the last row and
\* beyond.  The other threads of the launch have not been scheduled yet.
Scheduled(t) == ThreadIndex(t) >= kernel.size - 1

\* Square float matrices on an accelerator: small ones with either half as
\* the source, and one of MaxSize rows, for which (MaxSize - 1) * MaxSize
\* is not below 2 ^ (INT_BITS - 1), with copy_simple_kernel_lower selected.
InitOffsets ==
    \/ \E n \in 1 .. NB + 1, ord \in Orders, u \in BOOLEAN :
          StartTriang([HostOf("copy_triang", 1) EXCEPT !.upper = u],
                      Handle(n, n, ord, "cuda:0", "float", "A"))
    \/ \E ord \in Orders :
          StartTriang([HostOf("copy_triang", 1) EXCEPT !.upper = (ord = "C")],
                      Handle(MaxSize, MaxSize, ord, "cuda:0", "float", "A"))

NextOffsets ==
    \/ cuda_copy_triang
    \/ \E t \in DOMAIN tpc : Scheduled(t) /\ copy_simple_kernel_lower(t)
    \/ \E t \in DOMAIN tpc : Scheduled(t) /\ copy_simple_kernel_upper(t)

SpecOffsets == InitOffsets /\ [][NextOffsets]_vars

\* C17: on valid inputs every global-memory index a thread of the copy,
\* scale and transpose kernels reads or writes lies inside the buffer (no
\* access has left it and none is about to), and the surplus threads, whose
\* row is >= n or whose tile coordinates fall outside the matrix, access no
\* global memory at all.
C17_KernelsMemorySafe ==
    ValidLaunch =>
        /\ \A t \in DOMAIN tpc :
              /\ \A a \in PendingAccesses(t) : a[2] \in DOMAIN mem[a[1]]
              /\ Surplus(t) =>
                     /\ PendingAccesses(t) = {}
                     /\ kernel.name \notin TransposeKernels =>
                            tpc[t].ph \in {"entry", "done"}
        /\ (\A b \in KernelBuffers : T[b].dev = kernel.dev) => ~fault

\* C18: in the copy kernels the offsets col_pos and row_pos held in ints
\* always equal the mathematical offsets i * size + k and i + k * size of
\* some iteration k < i of thread i < size, for every square matrix size:
\* no offset wraps around.
C18_OffsetsExact ==
    \A t \in DOMAIN tpc :
        kernel.name \in CopyKernels /\ tpc[t].ph = "loop" =>
            LET i == t[1] * kernel.block[1] + t[3]
            IN /\ i < kernel.size
               /\ \E k \in 0 .. i - 1 :
                     /\ tpc[t].col_pos = i * kernel.size + k
                     /\ tpc[t].row_pos = i + k * kernel.size


====
